---- MODULE Spec2Model ----
(***************************************************************************)
(* Model of combined_app.py: a Streamlit script that is re-executed from   *)
(* top to bottom on every user interaction.  One rerun renders one of four *)
(* views (Dashboard, Add Task, Tasks, AI Insights).  The only state that   *)
(* survives a rerun is st.session_state.tasks; everything else is what the *)
(* last rerun rendered.                                                    *)
(*                                                                         *)
(* Numbers: a completion rate is kept in hundredths of a percent (h), so   *)
(* 33.33 is h = 3333; the Python value is an int (the literal 0 of the     *)
(* empty branch) or a float (the result of round).                         *)
(***************************************************************************)
EXTENDS Integers, Sequences, FiniteSets, TLC

\* ------------------------------------------------------------------ bounds
MaxTasks == 2
MaxPrefix == 4
MaxLongPrefix == 1
PadLen == 20000
MaxRows == 7
MaxNulls == 1

\* ------------------------------------------------- widget option lists
Pages == <<"Dashboard", "Add Task", "Tasks", "AI Insights">>

PriorityOptions == <<"Low", "Medium", "High">>

StatusOptions == <<"Pending", "In Progress", "Completed">>

Range(s) == {s[i] : i \in 1..Len(s)}

\* Values a user can type or pick in the Add Task form.
Descriptions == {"", "Fix login bug"}

Hours == {0}

DueDates == {<<2025, 1, 5>>}

Categories == {"Work"}

VARIABLES tasks, page, ran, input, out, error

vars == <<tasks, page, ran, input, out, error>>

\* ------------------------------------------------------ utility functions

CountNotCompleted(ts) == Cardinality({i \in 1..Len(ts) : ts[i].status # "Completed"})

\* sum(1 for task in tasks if task["status"] == "Completed")
CountCompleted(ts) == Cardinality({i \in 1..Len(ts) : ts[i].status = "Completed"})

\* round(x, 2) of x = 100*c/n, in hundredths.  Off a decimal tie the result
\* is the nearest hundredth.  On an exact tie Python rounds the binary double,
\* whose error decides the direction (0.005 becomes 0.01 for 1 of 20000, and
\* 0.015 becomes 0.01 for 3 of 20000), so both neighbours are admitted.
Round2(c, n) ==
  LET q == (10000 * c) \div n
      r == (10000 * c) % n
  IN  IF 2 * r < n THEN {q} ELSE IF 2 * r > n THEN {q + 1} ELSE {q, q + 1}

\* (completed / len(tasks)) * 100 raises ZeroDivisionError when len(tasks) = 0.
Percent(c, n) ==
  IF n = 0 THEN {[kind |-> "ZeroDivisionError", h |-> 0]}
  ELSE {[kind |-> "float", h |-> x] : x \in Round2(c, n)}

NoGuardRate(ts) == Percent(CountCompleted(ts), Len(ts))

calculate_completion_rate(ts) ==
  IF Len(ts) = 0 THEN {[kind |-> "int", h |-> 0]}
  ELSE Percent(CountCompleted(ts), Len(ts))

\* str() of the value inside the f-string f"{completion_rate}%": an int prints
\* without a decimal point, a float prints its shortest repr, which for a
\* value rounded to two places has one or two decimals (0.0, 50.0, 33.33).
Digit(d) == ToString(d)

FormatRate(v) ==
  LET whole == v.h \div 100
      frac == v.h % 100
  IN  IF v.kind = "int" THEN ToString(whole)
      ELSE IF frac % 10 = 0 THEN ToString(whole) \o "." \o Digit(frac \div 10)
      ELSE ToString(whole) \o "." \o Digit(frac \div 10) \o Digit(frac % 10)

\* str(due_date) of a datetime.date: ISO form YYYY-MM-DD.
Pad2(k) == IF k < 10 THEN "0" \o ToString(k) ELSE ToString(k)

DateStr(d) == ToString(d[1]) \o "-" \o Pad2(d[2]) \o "-" \o Pad2(d[3])

\* Python truth value of a str.
Truthy(s) == s # ""

\* pd.DataFrame(st.session_state.tasks): one row per task, RangeIndex 0..n-1.
task_dataframe(ts) == [i \in 1..Len(ts) |-> [idx |-> i - 1, task |-> ts[i]]]

\* Series.unique(): distinct values in order of first appearance.
Unique(s) ==
  LET F[i \in 0..Len(s)] ==
        IF i = 0 THEN <<>>
        ELSE IF s[i] \in Range(F[i - 1]) THEN F[i - 1] ELSE Append(F[i - 1], s[i])
  IN  F[Len(s)]

Column(df, col) == [i \in 1..Len(df) |-> df[i].task[col]]

\* Series.value_counts() as a set of <<value, count>> pairs (pie chart data).
ValueCountSet(s) == {<<v, Cardinality({i \in 1..Len(s) : s[i] = v})>> : v \in Range(s)}

\* ------------------------------------------------------------------ views

Nothing == [view |-> "none"]

DashboardView ==
  /\ ran' = <<"Dashboard">>
  /\ input' = [view |-> "Dashboard"]
  /\ tasks' = tasks
  /\ \E v \in calculate_completion_rate(tasks) :
       IF v.kind = "ZeroDivisionError"
       THEN /\ error' = "ZeroDivisionError"
            /\ out' = [view |-> "Dashboard", metrics |-> FALSE]
       ELSE /\ error' = "none"
            /\ out' = [view |-> "Dashboard", metrics |-> TRUE,
                       total |-> Len(tasks),
                       completed |-> CountCompleted(tasks),
                       rate |-> v,
                       rateText |-> FormatRate(v) \o "%",
                       charts |-> Len(task_dataframe(tasks)) # 0,
                       categoryPie |-> ValueCountSet(Column(task_dataframe(tasks), "category")),
                       priorityPie |-> ValueCountSet(Column(task_dataframe(tasks), "priority"))]

NewTask(d, h, due, c, p, s) ==
  [description |-> d, estimated_hours |-> h, due_date |-> DateStr(due),
   category |-> c, priority |-> p, status |-> s]

NoCheckAccepts(submitted, d) == submitted

Accepts(submitted, d) == submitted /\ Truthy(d)

PrependStore(ts, t) == <<t>> \o ts

AppendStore(ts, t) == Append(ts, t)

\* What the form holds when the page is rendered without a submission: the
\* widgets of a form do not rerun the script, so an unsubmitted rerun is the
\* arrival on the page, with every widget at its default.
FormDefaults ==
  [description |-> "", estimated_hours |-> 0, due_date |-> <<2025, 1, 5>>,
   category |-> "", priority |-> PriorityOptions[1], status |-> StatusOptions[1]]

FormInputs ==
  [description : Descriptions, estimated_hours : Hours, due_date : DueDates,
   category : Categories, priority : Range(PriorityOptions), status : Range(StatusOptions)]

AddTaskView ==
  \E submitted \in BOOLEAN :
    \E f \in IF submitted THEN FormInputs ELSE {FormDefaults} :
      /\ ran' = <<"Add Task">>
      /\ input' = [view |-> "Add Task", form |-> f, submitted |-> submitted]
      /\ error' = "none"
      /\ IF Accepts(submitted, f.description)
         THEN /\ Len(tasks) < MaxTasks
              /\ tasks' = AppendStore(tasks, NewTask(f.description, f.estimated_hours, f.due_date,
                                                     f.category, f.priority, f.status))
              /\ out' = [view |-> "Add Task", success |-> TRUE]
         ELSE /\ tasks' = tasks
              /\ out' = [view |-> "Add Task", success |-> FALSE]

WrongColumnFilter(df, col, val) == SelectSeq(df, LAMBDA r : r.task["status"] = val)

\* filtered_df[filtered_df[col] == val]
FilterEq(df, col, val) == SelectSeq(df, LAMBDA r : r.task[col] = val)

Filtered(df, status_filter, priority_filter) ==
  LET f1 == IF status_filter # "All" THEN FilterEq(df, "status", status_filter) ELSE df
  IN  IF priority_filter # "All" THEN FilterEq(f1, "priority", priority_filter) ELSE f1

TasksView ==
  LET df == task_dataframe(tasks)
      statusChoices == <<"All">> \o Unique(Column(df, "status"))
      priorityChoices == <<"All">> \o Unique(Column(df, "priority"))
  IN  /\ ran' = <<"Tasks">>
      /\ tasks' = tasks
      /\ error' = "none"
      /\ IF Len(df) # 0
         THEN \E sf \in Range(statusChoices), pf \in Range(priorityChoices) :
                /\ input' = [view |-> "Tasks", status_filter |-> sf, priority_filter |-> pf]
                /\ out' = [view |-> "Tasks", empty |-> FALSE,
                           statusChoices |-> statusChoices,
                           priorityChoices |-> priorityChoices,
                           table |-> Filtered(df, sf, pf)]
         ELSE /\ input' = [view |-> "Tasks"]
              /\ out' = [view |-> "Tasks", empty |-> TRUE]

\* ----------------------------------------------------- AI Insights pipeline
\* An uploaded CSV is a sequence of rows of raw fields.  A description is the
\* sequence of its whitespace-separated words; priority and assigned_to are
\* strings.  An empty field, or one of pandas' default NA spellings, is
\* parsed as NaN.

NaStrings == {"", "NA", "NaN", "nan", "null", "N/A"}

NaN == [na |-> TRUE, v |-> <<>>]

Cell(x) == [na |-> FALSE, v |-> x]

ReadStr(x) == IF x \in NaStrings THEN NaN ELSE Cell(x)

ReadText(x) == IF x = <<>> \/ (Len(x) = 1 /\ x[1] \in NaStrings) THEN NaN ELSE Cell(x)

\* pd.read_csv(uploaded)
read_csv(file) ==
  [i \in 1..Len(file) |->
     [idx |-> i - 1,
      description |-> ReadText(file[i].description),
      priority |-> ReadStr(file[i].priority),
      assigned_to |-> ReadStr(file[i].assigned_to)]]

RequiredColumns == {"description", "priority", "assigned_to"}

\* df.dropna(subset=..., inplace=True): rows keep their index labels and order.
dropna(df, subset) == SelectSeq(df, LAMBDA r : \A c \in subset : ~r[c].na)

DropDescriptionOnly(df) == dropna(df, {"description"})

DropRequired(df) == dropna(df, RequiredColumns)

\* text.lower(), word by word.
LowerOf(w) ==
  CASE w = "Fix" -> "fix"
    [] w = "Write" -> "write"
    [] w = "Bug-Fix!" -> "bug-fix!"
    [] OTHER -> w

\* re.sub(r"[^A-Za-z]", " ", ...) followed by split(): the letter runs of a word.
LetterRuns(w) ==
  CASE w = "bug-fix!" -> <<"bug", "fix">>
    [] OTHER -> <<w>>

\* stopwords.words('english'), restricted to the vocabulary of the model.
StopWords == {"the", "is", "a"}

\* PorterStemmer().stem(word) on the vocabulary of the model.
Stem(w) ==
  CASE w = "bugs" -> "bug"
    [] w = "docs" -> "doc"
    [] OTHER -> w

Flatten(ss) ==
  LET F[i \in 0..Len(ss)] == IF i = 0 THEN <<>> ELSE F[i - 1] \o ss[i]
  IN  F[Len(ss)]

preprocess_text(text) ==
  LET lowered == [i \in 1..Len(text) |-> LowerOf(text[i])]
      tokens == Flatten([i \in 1..Len(lowered) |-> LetterRuns(lowered[i])])
      kept == SelectSeq(tokens, LAMBDA w : w \notin StopWords)
  IN  [i \in 1..Len(kept) |-> Stem(kept[i])]

\* Sort order of the strings that occur in the model (np.unique sorts).
SortOrder == <<"High", "Low", "Medium", "alice", "bob", "carol", "dave">>

\* LabelEncoder().fit(values).classes_
Classes(values) == SelectSeq(SortOrder, LAMBDA l : l \in Range(values))

IndexOf(s, x) == CHOOSE i \in 1..Len(s) : s[i] = x

\* LabelEncoder().fit_transform(values): 0-based position in classes_.
fit_transform(values) == [i \in 1..Len(values) |-> IndexOf(Classes(values), values[i]) - 1]

ColumnOf(df, col) == [i \in 1..Len(df) |-> df[i][col].v]

CountOf(s, v) == Cardinality({i \in 1..Len(s) : s[i] = v})

\* Stable sort of the keys by count, descending: the keys with the highest
\* count first, equal counts in the order given.
SortByCountDesc(keys, s) ==
  LET F[c \in 0..Len(s)] ==
        IF c = 0 THEN <<>>
        ELSE F[c - 1] \o SelectSeq(keys, LAMBDA k : CountOf(s, k) = Len(s) + 1 - c)
  IN  F[Len(s)]

Counted(keys, s) == [i \in 1..Len(keys) |-> [key |-> keys[i], count |-> CountOf(s, keys[i])]]

\* Series.value_counts(): one entry per distinct value, keys first collected
\* in order of appearance, then sorted by count, descending, equal counts
\* keeping their order of appearance.
value_counts(s) == Counted(SortByCountDesc(Unique(s), s), s)

idxmin_last(vc) ==
  LET i == CHOOSE i \in 1..Len(vc) :
             /\ \A j \in 1..Len(vc) : vc[i].count <= vc[j].count
             /\ \A j \in (i + 1)..Len(vc) : vc[j].count # vc[i].count
  IN  vc[i].key

\* Series.idxmin(): label of the first occurrence of the minimum.
idxmin(vc) ==
  LET i == CHOOSE i \in 1..Len(vc) :
             /\ \A j \in 1..Len(vc) : vc[i].count <= vc[j].count
             /\ \A j \in 1..(i - 1) : vc[j].count # vc[i].count
  IN  vc[i].key

recommend_user(df) == idxmin(value_counts(ColumnOf(df, "assigned_to")))

\* get_sentence_embeddings(texts): one vector per text; the vector is kept as
\* the text it was computed from.
get_sentence_embeddings(texts) == texts

\* n_test = ceil(0.2 * n_samples), n_train = n_samples - n_test.
NTest(n) == (n + 4) \div 5

\* train_test_split(..., test_size=0.2, stratify=y): the conditions under
\* which it raises ValueError instead of returning a split.
SplitFails(y) ==
  LET n == Len(y)
      k == Cardinality(Range(y))
  IN  \/ n = 0
      \/ n - NTest(n) = 0
      \/ \E c \in Range(y) : CountOf(y, c) < 2
      \/ n - NTest(n) < k
      \/ NTest(n) < k

\* LogisticRegression.fit needs at least two classes in y_train; a stratified
\* training fold holds every class of y.
FitFails(y) == Cardinality(Range(y)) < 2

\* Predicted label: priority_model.predict returns one of the classes the
\* model was fitted on; which one is the model's business.
Predictions(classes) == Range(classes)

NoFile == [present |-> FALSE, rows |-> <<>>]

File(rows) == [present |-> TRUE, rows |-> rows]

EmptyRun ==
  [view |-> "AI Insights", status |-> "idle", failedAt |-> 0,
   df |-> <<>>, processed |-> <<>>, classes |-> <<>>, y |-> <<>>, users |-> <<>>,
   X |-> <<>>, nTrain |-> 0, nTest |-> 0,
   reportRows |-> <<>>, cmLabels |-> <<>>, cmShape |-> <<0, 0>>,
   widgets |-> FALSE, predicted |-> "", recommended |-> ""]

HasNa(df, col) == \E i \in 1..Len(df) : df[i][col].na

\* Texts handed to get_sentence_embeddings on line 157.
EmbedTexts(df) == ColumnOf(df, "description")

\* Lines 151-171: the run up to the rendered report and confusion matrix.
Analyse(file) ==
  LET df == DropRequired(read_csv(file.rows))
      r0 == [EmptyRun EXCEPT !.df = df]
      processed == [i \in 1..Len(df) |-> preprocess_text(df[i].description.v)]
      r1 == [r0 EXCEPT !.processed = processed]
      priorities == ColumnOf(df, "priority")
      classes == Classes(priorities)
      y == fit_transform(priorities)
      r2 == [r1 EXCEPT !.classes = classes, !.y = y]
      r3 == [r2 EXCEPT !.users = fit_transform(ColumnOf(df, "assigned_to"))]
      r4 == [r3 EXCEPT !.X = get_sentence_embeddings(EmbedTexts(df))]
      r5 == [r4 EXCEPT !.nTest = NTest(Len(y)), !.nTrain = Len(y) - NTest(Len(y))]
      labels == [i \in 1..Len(classes) |-> i - 1]
  IN  IF HasNa(df, "description") THEN [r0 EXCEPT !.status = "AttributeError", !.failedAt = 153]
      ELSE IF HasNa(df, "priority") THEN [r1 EXCEPT !.status = "TypeError", !.failedAt = 155]
      ELSE IF HasNa(df, "assigned_to") THEN [r2 EXCEPT !.status = "TypeError", !.failedAt = 156]
      ELSE IF SplitFails(y) THEN [r4 EXCEPT !.status = "ValueError", !.failedAt = 158]
      ELSE IF FitFails(y) THEN [r5 EXCEPT !.status = "ValueError", !.failedAt = 159]
      ELSE [r5 EXCEPT !.status = "ok",
                      !.reportRows = [i \in 1..Len(labels) |-> classes[labels[i] + 1]]
                                       \o <<"accuracy", "macro avg", "weighted avg">>,
                      !.cmLabels = [i \in 1..Len(labels) |-> classes[labels[i] + 1]],
                      !.cmShape = <<Len(labels), Len(labels)>>,
                      !.widgets = TRUE]

\* Texts a user can type into the prediction box.
PredictTexts == {<<>>, <<"Bug-Fix!", "is", "the", "Fix">>}

InsightsView(files) ==
  \E file \in files \cup {NoFile}, desc \in PredictTexts, clicked \in BOOLEAN :
    \* the prediction widgets exist only if the previous rerun rendered them,
    \* and a click reruns the script with the other widgets as they were
    /\ (clicked \/ desc # <<>>) =>
         (out.view = "AI Insights" /\ out.widgets /\ file.present)
    /\ clicked => file = input.file
    /\ ran' = <<"AI Insights">>
    /\ tasks' = tasks
    /\ input' = [view |-> "AI Insights", file |-> file, desc |-> desc, clicked |-> clicked]
    /\ IF ~file.present
       THEN /\ out' = EmptyRun
            /\ error' = "none"
       ELSE \E r \in {Analyse(file)} :
              /\ error' = IF r.status = "ok" THEN "none" ELSE r.status
              /\ IF r.status = "ok" /\ clicked /\ desc # <<>>
                 THEN \E pred \in Predictions(r.classes), user \in {recommend_user(r.df)} :
                        out' = [r EXCEPT !.predicted = pred, !.recommended = user]
                 ELSE out' = r

\* --------------------------------------------------------------- the script

\* Lines 77, 106, 130, 147: the if/elif chain over the sidebar radio.
View(p, files) ==
  IF p = "Dashboard" THEN DashboardView
  ELSE IF p = "Add Task" THEN AddTaskView
  ELSE IF p = "Tasks" THEN TasksView
  ELSE IF p = "AI Insights" THEN InsightsView(files)
  ELSE /\ ran' = <<>>
       /\ UNCHANGED <<tasks, input, out, error>>

\* Rows an uploaded file is made of.
RowA == [description |-> <<"Fix", "the", "login", "bugs">>, priority |-> "High", assigned_to |-> "alice"]

RowB == [description |-> <<"Write", "docs">>, priority |-> "Low", assigned_to |-> "bob"]

RowNoDescription == [description |-> <<>>, priority |-> "Medium", assigned_to |-> "carol"]

RowNoPriority == [description |-> <<"Fix", "the", "login", "bugs">>, priority |-> "", assigned_to |-> "dave"]

RowNoUser == [description |-> <<"Write", "docs">>, priority |-> "Medium", assigned_to |-> "NA"]

RowSet == {RowA, RowB, RowNoDescription, RowNoPriority, RowNoUser}

SeqsUpTo(S, n) == UNION {[1..k -> S] : k \in 0..n}

Incomplete(row) ==
  ReadText(row.description).na \/ ReadStr(row.priority).na \/ ReadStr(row.assigned_to).na

\* Files of at most MaxRows rows, at most MaxNulls of them incomplete.
AllUploads ==
  {File(rows) : rows \in {r \in SeqsUpTo(RowSet, MaxRows) :
                            Cardinality({i \in 1..Len(r) : Incomplete(r[i])}) <= MaxNulls}}

TwoRowCsv == File(<<RowA, RowB>>)

SessionUploads ==
  {TwoRowCsv,
   File(<<RowA, RowB, RowA, RowNoUser, RowB, RowB, RowA>>),
   File(<<RowNoDescription, RowNoPriority>>)}

Init ==
  /\ tasks = <<>>
  /\ page = Pages[1]
  /\ ran = <<>>
  /\ input = Nothing
  /\ out = Nothing
  /\ error = "none"

GoDashboard ==
  /\ page' = "Dashboard"
  /\ View(page', SessionUploads)

GoAddTask ==
  /\ page' = "Add Task"
  /\ View(page', SessionUploads)

GoTasks ==
  /\ page' = "Tasks"
  /\ View(page', SessionUploads)

GoInsights ==
  /\ page' = "AI Insights"
  /\ View(page', SessionUploads)

Next == GoDashboard \/ GoAddTask \/ GoTasks \/ GoInsights

Spec == Init /\ [][Next]_vars

\* The AI Insights page alone: the user has picked a file, any file within the
\* bounds, and from then on types into the prediction box, clicks the button
\* or removes the file.
InitInsights ==
  /\ tasks = <<>>
  /\ page = Pages[1]
  /\ ran = <<>>
  /\ input \in {[view |-> "AI Insights", file |-> f, desc |-> <<>>, clicked |-> FALSE] :
                  f \in AllUploads}
  /\ out = Nothing
  /\ error = "none"

StayOnInsights ==
  /\ page' = "AI Insights"
  /\ View(page', {input.file})

SpecInsights == InitInsights /\ [][StayOnInsights]_vars

\* The Dashboard over long task lists: a few tasks of any status followed by a
\* run of Pending ones, as that many accepted submissions leave it.
PaddingTask(s) == NewTask("Fix login bug", 0, <<2025, 1, 5>>, "Work", "Low", s)

Padded(pre, pad) ==
  [i \in 1..(Len(pre) + pad) |->
     IF i <= Len(pre) THEN PaddingTask(pre[i]) ELSE PaddingTask("Pending")]

RateInputs ==
  {Padded(pre, 0) : pre \in SeqsUpTo(Range(StatusOptions), MaxPrefix)}
    \cup {Padded(pre, PadLen) : pre \in SeqsUpTo(Range(StatusOptions), MaxLongPrefix)}

InitRate ==
  /\ tasks \in RateInputs
  /\ page = "Add Task"
  /\ ran = <<"Add Task">>
  /\ input = Nothing
  /\ out = Nothing
  /\ error = "none"

OpenDashboard ==
  /\ page' = "Dashboard"
  /\ View(page', {})

SpecRate == InitRate /\ [][OpenDashboard]_vars

\* ------------------------------------------------------------ properties

Abs(x) == IF x < 0 THEN -x ELSE x

NumCompleted == Cardinality({i \in DOMAIN tasks : tasks[i].status = "Completed"})

\* C1 (as stated): for a non-empty task list the completion rate lies in
\* [0,100] and is 0 exactly when no task is Completed, whatever the length.
C1_ZeroIffNoneCompleted ==
  (out.view = "Dashboard" /\ tasks # <<>>) =>
     /\ out.metrics
     /\ out.rate.h >= 0 /\ out.rate.h <= 10000
     /\ (out.rate.h = 0 <=> NumCompleted = 0)

\* C1 (amended): the rate lies in [0,100]; it is 0 when no task is Completed;
\* it is non-zero when a task is Completed and there are fewer than 20000
\* tasks per Completed task; and it is 0 again, by rounding to two places,
\* when there are more than 20000 tasks per Completed task.
C1_ZeroIffRoundsToZero ==
  (out.view = "Dashboard" /\ tasks # <<>>) =>
     /\ out.metrics
     /\ out.rate.h >= 0 /\ out.rate.h <= 10000
     /\ (NumCompleted = 0 => out.rate.h = 0)
     /\ (NumCompleted >= 1 /\ Len(tasks) < 20000 * NumCompleted => out.rate.h # 0)
     /\ (Len(tasks) > 20000 * NumCompleted => out.rate.h = 0)

C1_Witness ==
  /\ out.view = "Dashboard"
  /\ NumCompleted >= 1
  /\ Len(tasks) > 20000
  /\ out.metrics
  /\ out.rate.h = 0

\* C2: the rate of the empty list is 0; otherwise it is 100 * completed /
\* total to the nearest hundredth; no division by zero is ever raised.
C2_RoundedQuotient ==
  (out.view = "Dashboard") =>
     /\ error = "none"
     /\ out.metrics
     /\ (Len(tasks) = 0 => out.rate.h = 0)
     /\ (Len(tasks) > 0 =>
           2 * Abs(out.rate.h * Len(tasks) - 10000 * NumCompleted) <= Len(tasks))

C2_Witness ==
  /\ out.view = "Dashboard"
  /\ Len(tasks) = 3
  /\ NumCompleted = 2
  /\ out.metrics
  /\ out.rate.h = 6667

\* C3: a submission of the Add Task form with an empty description leaves the
\* store as it was and raises nothing; every stored task has a non-empty
\* description.
C3_EmptyDescriptionRejected ==
  /\ [][(input'.view = "Add Task" /\ input'.submitted /\ input'.form.description = "")
          => (tasks' = tasks /\ error' = "none")]_vars
  /\ [](\A i \in DOMAIN tasks : tasks[i].description # "")

C3_Witness ==
  /\ input.view = "Add Task"
  /\ input.submitted
  /\ input.form.description = ""
  /\ Len(tasks) = 1
  /\ ~out.success

\* C4: the Dashboard of a store holding the single task "Fix login bug" /
\* "Pending" shows Total Tasks 1, Completed Tasks 0 and Completion Rate "0%";
\* in general Total Tasks is the size of the store, Completed Tasks the number
\* of stored Completed tasks (at most Total Tasks), and the rate shown is the
\* completion rate followed by "%".
C4_DashboardMetrics ==
  (out.view = "Dashboard") =>
     /\ out.metrics
     /\ out.total = Len(tasks)
     /\ out.completed = NumCompleted
     /\ out.completed <= out.total
     /\ \E whole \in 0..100, frac \in 0..99 :
          /\ out.rate.h = 100 * whole + frac
          /\ out.rateText \in
               {ToString(whole) \o "%",
                ToString(whole) \o "." \o ToString(frac \div 10) \o "%",
                ToString(whole) \o "." \o ToString(frac \div 10) \o ToString(frac % 10) \o "%"}
     /\ (Len(tasks) = 1 /\ tasks[1].description = "Fix login bug" /\ tasks[1].status = "Pending")
          => (out.total = 1 /\ out.completed = 0 /\ out.rateText = "0%")

\* The uploaded rows as the formulas below read them, independently of the
\* pipeline: raw fields, a field being null when it is empty or an NA word.
Uploaded == input.file.rows

NullText(x) == x = <<>> \/ (Len(x) = 1 /\ x[1] \in NaStrings)

Valid(i) ==
  /\ ~NullText(Uploaded[i].description)
  /\ Uploaded[i].priority \notin NaStrings
  /\ Uploaded[i].assigned_to \notin NaStrings

ValidRows == {i \in DOMAIN Uploaded : Valid(i)}

Analysed == out.view = "AI Insights" /\ input.file.present

UserCount(u) == Cardinality({k \in DOMAIN out.df : out.df[k].assigned_to.v = u})

FirstSeen(u) == CHOOSE k \in DOMAIN out.df :
                  /\ out.df[k].assigned_to.v = u
                  /\ \A j \in 1..(k - 1) : out.df[j].assigned_to.v # u

\* C5: the recommended user occurs in the assigned_to column, no user has
\* fewer rows, and among the users with as few rows it is the one met first.
C5_FewestFirstSeen ==
  (Analysed /\ out.recommended # "") =>
     /\ \E k \in DOMAIN out.df : out.df[k].assigned_to.v = out.recommended
     /\ \A k \in DOMAIN out.df :
          LET v == out.df[k].assigned_to.v
          IN  /\ UserCount(out.recommended) <= UserCount(v)
              /\ (UserCount(v) = UserCount(out.recommended) /\ v # out.recommended)
                   => FirstSeen(out.recommended) < FirstSeen(v)

C5_Witness ==
  /\ Analysed
  /\ out.recommended = "bob"
  /\ UserCount("alice") = UserCount("bob")
  /\ FirstSeen("bob") < FirstSeen("alice")

\* C6: the rows the run works on are exactly the uploaded rows with
\* description, priority and assigned_to all present, in upload order; the
\* label encoder, the embedding, the split and the recommendation see one
\* entry per such row and no other.
C6_OnlyCompleteRows ==
  Analysed =>
     /\ \A k \in DOMAIN out.df :
          /\ out.df[k].idx + 1 \in ValidRows
          /\ out.df[k].description.v = Uploaded[out.df[k].idx + 1].description
          /\ out.df[k].priority.v = Uploaded[out.df[k].idx + 1].priority
          /\ out.df[k].assigned_to.v = Uploaded[out.df[k].idx + 1].assigned_to
     /\ \A i \in ValidRows : \E k \in DOMAIN out.df : out.df[k].idx + 1 = i
     /\ \A k, l \in DOMAIN out.df : k < l => out.df[k].idx < out.df[l].idx
     /\ (out.failedAt = 0 \/ out.failedAt >= 158) =>
          /\ Len(out.y) = Cardinality(ValidRows)
          /\ Len(out.users) = Cardinality(ValidRows)
          /\ Len(out.X) = Cardinality(ValidRows)
          /\ \A k \in DOMAIN out.df :
               /\ out.classes[out.y[k] + 1] = Uploaded[out.df[k].idx + 1].priority
               /\ out.X[k] = get_sentence_embeddings(<<Uploaded[out.df[k].idx + 1].description>>)[1]
     /\ out.status = "ok" => out.nTrain + out.nTest = Cardinality(ValidRows)
     /\ out.recommended # "" =>
          \E i \in ValidRows : Uploaded[i].assigned_to = out.recommended

C6_Witness ==
  /\ Analysed
  /\ out.status = "ok"
  /\ out.recommended # ""
  /\ Len(Uploaded) = 7
  /\ Cardinality(ValidRows) = 6
  /\ ~Valid(3)

ClassRows == {i \in DOMAIN out.reportRows :
                out.reportRows[i] \notin {"accuracy", "macro avg", "weighted avg"}}

DistinctLabels == {Uploaded[i].priority : i \in ValidRows}

\* C7: a run over valid rows with k distinct priority labels, k at least 2
\* (the two rows "High"/"alice" and "Low"/"bob" among them, k = 2), completes,
\* its report has exactly k class rows and its confusion matrix is k by k over
\* all k classes.
C7_ReportPerClass ==
  (Analysed /\ Cardinality(DistinctLabels) >= 2) =>
     /\ out.status = "ok"
     /\ Cardinality(ClassRows) = Cardinality(DistinctLabels)
     /\ out.cmShape = <<Cardinality(DistinctLabels), Cardinality(DistinctLabels)>>
     /\ Range(out.cmLabels) = DistinctLabels

\* C8: the texts embedded into the feature matrix X are the preprocessed
\* descriptions (lowercased, letters only, stopwords removed, stemmed).
C8_EmbedsPreprocessed ==
  (Analysed /\ out.status = "ok") =>
     /\ Len(out.X) = Len(out.df)
     /\ \A k \in DOMAIN out.df :
          out.X[k] = get_sentence_embeddings(<<preprocess_text(out.df[k].description.v)>>)[1]

IsPrefix(s, t) == Len(s) <= Len(t) /\ SubSeq(t, 1, Len(s)) = s

\* C9: a rerun executes exactly one view, the one selected; the store changes
\* only by one task appended at its end, and only on an Add Task submission
\* with a non-empty description; the other three views leave it as it was.
C9_AppendOnly ==
  [][/\ Len(ran') = 1
     /\ ran'[1] = page'
     /\ IsPrefix(tasks, tasks')
     /\ tasks' # tasks =>
          /\ ran'[1] = "Add Task"
          /\ input'.submitted
          /\ input'.form.description # ""
          /\ Len(tasks') = Len(tasks) + 1
          /\ tasks'[Len(tasks')].description = input'.form.description
          /\ tasks'[Len(tasks')].status = input'.form.status
          /\ tasks'[Len(tasks')].priority = input'.form.priority
     /\ ran'[1] \in {"Dashboard", "Tasks", "AI Insights"} => tasks' = tasks]_vars

C9_Witness ==
  /\ Len(tasks) = 2
  /\ tasks[1] # tasks[2]
  /\ ran = <<"AI Insights">>
  /\ input.file.present

Matches(i) ==
  /\ input.status_filter = "All" \/ tasks[i].status = input.status_filter
  /\ input.priority_filter = "All" \/ tasks[i].priority = input.priority_filter

\* C10: on the Tasks view of a non-empty store the table holds exactly the
\* stored tasks that pass both filters, in store order (the whole store when
\* both filters are "All"), and each filter offers "All" plus the values that
\* occur in the store, once each.
C10_FilteredTable ==
  (out.view = "Tasks" /\ tasks # <<>>) =>
     /\ ~out.empty
     /\ \A k \in DOMAIN out.table :
          /\ out.table[k].idx + 1 \in DOMAIN tasks
          /\ Matches(out.table[k].idx + 1)
          /\ out.table[k].task = tasks[out.table[k].idx + 1]
     /\ \A i \in DOMAIN tasks : Matches(i) => \E k \in DOMAIN out.table : out.table[k].idx + 1 = i
     /\ \A k, l \in DOMAIN out.table : k < l => out.table[k].idx < out.table[l].idx
     /\ (input.status_filter = "All" /\ input.priority_filter = "All")
          => [k \in DOMAIN out.table |-> out.table[k].task] = tasks
     /\ Range(out.statusChoices) = {"All"} \cup {tasks[i].status : i \in DOMAIN tasks}
     /\ Len(out.statusChoices) = Cardinality(Range(out.statusChoices))
     /\ Range(out.priorityChoices) = {"All"} \cup {tasks[i].priority : i \in DOMAIN tasks}
     /\ Len(out.priorityChoices) = Cardinality(Range(out.priorityChoices))

C10_Witness ==
  /\ out.view = "Tasks"
  /\ Len(tasks) = 2
  /\ input.status_filter # "All"
  /\ input.priority_filter # "All"
  /\ Len(out.table) = 1
  /\ out.table[1].idx = 1

====
